---- MODULE Spec2Model ----
(***************************************************************************)
(* ACH file validation and lifecycle engine (juliajreynolds/ach).          *)
(*                                                                         *)
(*   - server/files.go: the endpoints createFileEndpoint, getFileEndpoint, *)
(*     getFilesEndpoint, deleteFileEndpoint, validateFileEndpoint and the  *)
(*     temporal rule fileHasOldBatches, with the two counters.             *)
(*   - validators_test.go: the check-digit test (the validator itself, the *)
(*     Service, the Repository, NextID and base.Now are not part of the    *)
(*     sources at hand and are modelled from the specification).           *)
(*                                                                         *)
(* Three specifications share the module: Spec (the file lifecycle),       *)
(* SpecTemporal (fileHasOldBatches as a pure function of a file and the    *)
(* clock) and SpecRouting (the routing-number check digit).                *)
(***************************************************************************)
EXTENDS Integers, Sequences, FiniteSets, TLC

VARIABLES
    files,          \* the repository: the set of stored File records
    filesCreated,   \* counter ach_files_created (files.go:30)
    filesDeleted,   \* counter ach_files_deleted (files.go:35)
    nextID,         \* number of identifiers NextID() has handed out
    now,            \* the clock read by base.Now(), in ticks
    resp,           \* the request and the response of the last endpoint call
    deleted,        \* history: IDs deleted with success and not created again
    file,           \* SpecTemporal: the argument of fileHasOldBatches
    fileErr,        \* SpecTemporal: what fileHasOldBatches returned
    routingNumber,  \* SpecRouting: the string under test, as code points
    answer,         \* SpecRouting: <<d>> once CalculateCheckDigit returned d
    rtnErr          \* SpecRouting: results of CheckRoutingNumber

lifecycleVars == <<files, filesCreated, filesDeleted, nextID, resp, deleted>>
temporalVars == <<file, fileErr>>
routingVars == <<routingNumber, answer, rtnErr>>
vars == <<files, filesCreated, filesDeleted, nextID, now, resp, deleted,
          file, fileErr, routingNumber, answer, rtnErr>>

(***************************************************************************)
(* Bounds of the model.                                                    *)
(***************************************************************************)
MaxRtnLen == 9      \* longest routing-number string built
MaxBad == 1         \* most non-digit characters in a built string
MaxBatches == 2     \* longest Batches / IATBatches in SpecTemporal
MaxNow == 4         \* the clock stops at this instant
MaxGen == 1         \* most identifiers NextID() hands out
MaxCount == 2       \* cap of the two counters

\* clock ticks in one calendar day (files.go:96 cuts the clock to the day)
TicksPerDay == 2

(***************************************************************************)
(* Checksum validator.  Strings are sequences of code points.              *)
(***************************************************************************)
IsDigit(r) == r >= 48 /\ r <= 57

AllDigits(s) == \A i \in 1..Len(s) : IsDigit(s[i])

\* the weight of position i (1-indexed): 3, 7, 1, 3, 7, 1, 3, 7
Weight(i) == <<3, 7, 1>>[((i - 1) % 3) + 1]

RECURSIVE WeightedSum(_, _)
WeightedSum(s, i) ==
    IF i > Len(s) THEN 0
    ELSE (s[i] - 48) * Weight(i) + WeightedSum(s, i + 1)

CalculateCheckDigit_NoMod(s) ==
    IF Len(s) # 8 \/ ~AllDigits(s) THEN -1
    ELSE 10 - (WeightedSum(s, 1) % 10)

CalculateCheckDigit_AnyLength(s) ==
    IF ~AllDigits(s) THEN -1
    ELSE (10 - (WeightedSum(s, 1) % 10)) % 10

CalculateCheckDigit(s) ==
    IF Len(s) # 8 \/ ~AllDigits(s) THEN -1
    ELSE (10 - (WeightedSum(s, 1) % 10)) % 10

\* fmt.Sprintf("%d", n)
RECURSIVE FormatNat(_)
FormatNat(n) ==
    IF n < 10 THEN <<48 + n>>
    ELSE FormatNat(n \div 10) \o <<48 + (n % 10)>>

FormatInt(n) == IF n < 0 THEN <<45>> \o FormatNat(-n) ELSE FormatNat(n)

CheckRoutingNumber(s) ==
    IF Len(s) # 9 \/ ~AllDigits(s) THEN "InvalidRoutingNumber"
    ELSE IF s[9] - 48 # CalculateCheckDigit(SubSeq(s, 1, 8))
         THEN "InvalidRoutingNumber"
         ELSE "nil"

\* the inputs of TestValidators__checkDigit, with the expected answers
TestCases ==
    { [rtn |-> <<>>, check |-> -1],
      [rtn |-> <<49, 50, 51, 52, 53, 54>>, check |-> -1],
      [rtn |-> <<49, 97, 56, 97, 98>>, check |-> -1],
      [rtn |-> <<48, 55, 51, 48, 48, 48, 50, 97>>, check |-> -1],
      [rtn |-> <<48, 55, 51, 48, 65, 48, 48, 50>>, check |-> -1],
      [rtn |-> <<48, 55, 51, 48, 48, 48, 50, 50>>, check |-> 8],
      [rtn |-> <<49, 48, 50, 48, 48, 48, 48, 55>>, check |-> 6] }

\* the characters appended to a string under test: '0' and '9', the ends of
\* the digits, and '/' and ':', their neighbours outside
Chars == {47, 48, 57, 58}

BadCount(s) == Cardinality({i \in 1..Len(s) : ~IsDigit(s[i])})

Unset == "unset"

RoutingInit ==
    /\ routingNumber \in {c.rtn : c \in TestCases}
    /\ answer = <<>>
    /\ rtnErr = [appended |-> Unset, direct |-> Unset]

\* one more character of the string under test
AppendChar(c) ==
    /\ Len(routingNumber) < MaxRtnLen
    /\ IsDigit(c) \/ BadCount(routingNumber) < MaxBad
    /\ routingNumber' = Append(routingNumber, c)
    /\ answer' = <<>>
    /\ rtnErr' = [appended |-> Unset, direct |-> Unset]

\* the body of the test's loop: the digit, then the check of rtn ++ digit
CheckDigitCase ==
    /\ answer = <<>>
    /\ answer' = <<CalculateCheckDigit(routingNumber)>>
    /\ rtnErr' = [rtnErr EXCEPT !.appended =
                     CheckRoutingNumber(routingNumber \o FormatInt(answer'[1]))]
    /\ UNCHANGED routingNumber

\* CheckRoutingNumber on the string itself
CheckRoutingNumberCase ==
    /\ rtnErr.direct = Unset
    /\ rtnErr' = [rtnErr EXCEPT !.direct = CheckRoutingNumber(routingNumber)]
    /\ UNCHANGED <<routingNumber, answer>>

(***************************************************************************)
(* Files.  A batch is represented by its header: NilHeader when            *)
(* GetHeader() returns nil, else a record with the EffectiveEntryDate (an  *)
(* instant, in ticks).  NilFile is the nil *ach.File.                      *)
(***************************************************************************)
NilFile == [nil |-> TRUE]

NilHeader == [nil |-> TRUE]

Header(d) == [EffectiveEntryDate |-> d]

\* the first instant of day 1, the day the clock starts in
Midnight == TicksPerDay

\* effective entry dates: the last instant of day 0, the first of day 1, a later one
Dates == {Midnight - 1, Midnight, Midnight + 1}

Headers == {NilHeader} \cup {Header(d) : d \in Dates}

SeqsUpTo(S, n) == UNION {[1..k -> S] : k \in 0..n}

NoError == [err |-> "nil", in |-> "", i |-> 0]

Failure(e) == [err |-> e, in |-> "", i |-> 0]

NotCalled == Failure("unset")

\* the error of files.go:104 and :113: which loop found it, at which index
Stale(coll, idx) == [err |-> "StaleEffectiveDate", in |-> coll, i |-> idx]

\* files.go:94-96: the start of the day of the instant t
StartOfDay(t) == t - (t % TicksPerDay)

\* time.Time.Before
Before(t, u) == t < u

\* files.go:107-115, from index i on (Go indexes from 0, the model from 1):
\* the header is read from file.Batches[i], whatever IATBatches[i] holds
RECURSIVE ScanIATBatches(_, _, _)
ScanIATBatches(f, i, today) ==
    IF i > Len(f.IATBatches) THEN NoError
    ELSE IF i > Len(f.Batches) THEN Failure("panic")
    ELSE LET header == f.Batches[i]
         IN  IF header = NilHeader THEN ScanIATBatches(f, i + 1, today)
             ELSE IF Before(header.EffectiveEntryDate, today)
                  THEN Stale("IATBatch", i)
                  ELSE ScanIATBatches(f, i + 1, today)

\* files.go:98-106, from index i on, then the second loop
RECURSIVE ScanBatches(_, _, _)
ScanBatches(f, i, today) ==
    IF i > Len(f.Batches) THEN ScanIATBatches(f, 1, today)
    ELSE LET header == f.Batches[i]
         IN  IF header = NilHeader THEN ScanBatches(f, i + 1, today)
             ELSE IF Before(header.EffectiveEntryDate, today)
                  THEN Stale("batch", i)
                  ELSE ScanBatches(f, i + 1, today)

fileHasOldBatches(f, clock) ==
    IF f = NilFile THEN Failure("NoFileProvided")
    ELSE ScanBatches(f, 1, StartOfDay(clock))

(***************************************************************************)
(* SpecTemporal: fileHasOldBatches applied to a file and a clock.          *)
(***************************************************************************)
TemporalFiles ==
    {NilFile} \cup
    { [ID |-> "a", ImmediateOrigin |-> "o", ImmediateDestination |-> "d",
       Batches |-> b, IATBatches |-> ib] :
         b \in SeqsUpTo(Headers, MaxBatches), ib \in SeqsUpTo(Headers, MaxBatches) }

TemporalInit ==
    /\ file \in TemporalFiles
    /\ fileErr = NotCalled

\* base.Now() read later: the clock has moved on
Tick ==
    /\ now < MaxNow
    /\ now' = now + 1

CallFileHasOldBatches ==
    /\ fileErr' = fileHasOldBatches(file, now)
    /\ UNCHANGED file

(***************************************************************************)
(* File lifecycle service.                                                 *)
(***************************************************************************)
\* identifiers a caller makes up
UserIDs == {"a"}

\* the k-th identifier of NextID(): never one a caller made up, never repeated
GenID(k) == "g" \o ToString(k)

Issued == {GenID(k) : k \in 1..nextID}

NextID == GenID(nextID + 1)

\* a submitted file, before its ID is chosen
Body(origin, destination, batches, iatBatches) ==
    [ImmediateOrigin |-> origin, ImmediateDestination |-> destination,
     Batches |-> batches, IATBatches |-> iatBatches]

\* the files submitted to Create: accepted, stale, IAT batches behind a current
\* batch, more IAT batches than batches, and the two untagged headers
RequestBodies ==
    { Body("o", "d", <<Header(Midnight)>>, <<>>),
      Body("o", "d", <<Header(Midnight - 1)>>, <<>>),
      Body("o", "d", <<Header(Midnight)>>, <<Header(Midnight - 1)>>),
      Body("o", "d", <<>>, <<Header(Midnight - 1)>>),
      Body("", "d", <<Header(Midnight)>>, <<>>),
      Body("o", "", <<Header(Midnight - 1)>>, <<>>) }

WithID(body, id) ==
    [ID |-> id, ImmediateOrigin |-> body.ImmediateOrigin,
     ImmediateDestination |-> body.ImmediateDestination,
     Batches |-> body.Batches, IATBatches |-> body.IATBatches]

\* Repository.StoreFile: put by ID; the store may refuse, and then changes nothing
StoreFile(fs, f) == {g \in fs : g.ID # f.ID} \cup {f}

StoreErrors == {NoError, Failure("StorageError")}

StoredIDs(fs) == {g.ID : g \in fs}

\* Service.GetFile
GetFile(fs, id) ==
    IF id \in StoredIDs(fs)
    THEN [file |-> CHOOSE g \in fs : g.ID = id, err |-> NoError]
    ELSE [file |-> NilFile, err |-> Failure("NotFound")]

\* Service.GetFiles
GetFiles(fs) == fs

\* Service.DeleteFile
DeleteFile(fs, id) ==
    IF id \in StoredIDs(fs)
    THEN [files |-> {g \in fs : g.ID # id}, err |-> NoError]
    ELSE [files |-> fs, err |-> Failure("NotFound")]

\* Service.ValidateFile: the temporal rule on the stored content
ValidateFile(fs, id, clock) ==
    IF id \in StoredIDs(fs)
    THEN fileHasOldBatches(GetFile(fs, id).file, clock)
    ELSE Failure("NotFound")

Response(op, f, id, err, ret) ==
    [op |-> op, file |-> f, id |-> id, err |-> err, ret |-> ret, list |-> {}]

\* files.go:59: the counter moves for a non-nil file with both identifiers
Tagged(f) ==
    f # NilFile /\ f.ImmediateDestination # "" /\ f.ImmediateOrigin # ""

\* files.go:63-66
AssignID_Never(f) == f

AssignID(f) == IF f.ID = "" THEN [f EXCEPT !.ID = NextID] ELSE f

\* files.go:69: the rule's verdict ends the call
Rejects(err) == err.err # "nil"

\* files.go:70-73, with the ID left out of the response
RejectResponse_NoID(reqFile, f, err) ==
    Response("createFile", reqFile, "", err, err)

\* files.go:70-73: the response and the error of a rejected file
RejectResponse(reqFile, f, err) ==
    Response("createFile", reqFile, f.ID, err, err)

\* files.go:54-86
createFileEndpoint(reqFile) ==
    IF reqFile = NilFile
    THEN \* line 59 skips the nil file, line 64 dereferences it
         /\ resp' = Response("createFile", reqFile, "", Failure("panic"), Failure("panic"))
         /\ UNCHANGED <<files, filesCreated, filesDeleted, nextID, deleted>>
    ELSE LET f == AssignID(reqFile)
             err == fileHasOldBatches(f, now)
         IN  /\ Tagged(reqFile) => filesCreated < MaxCount
             /\ reqFile.ID = "" => nextID < MaxGen
             /\ filesCreated' = IF Tagged(reqFile) THEN filesCreated + 1 ELSE filesCreated
             /\ nextID' = IF reqFile.ID = "" THEN nextID + 1 ELSE nextID
             /\ UNCHANGED filesDeleted
             /\ IF err.err = "panic"
                THEN /\ resp' = Response("createFile", reqFile, "", err, err)
                     /\ UNCHANGED <<files, deleted>>
                ELSE IF Rejects(err)
                THEN /\ resp' = RejectResponse(reqFile, f, err)
                     /\ UNCHANGED <<files, deleted>>
                ELSE \E serr \in StoreErrors :
                     /\ files' = IF serr = NoError THEN StoreFile(files, f) ELSE files
                     /\ deleted' = IF serr = NoError THEN deleted \ {f.ID} ELSE deleted
                     /\ resp' = Response("createFile", reqFile, f.ID, serr, NoError)

\* files.go:165-172
getFilesEndpoint ==
    /\ resp' = [Response("getFiles", NilFile, "", NoError, NoError)
                  EXCEPT !.list = GetFiles(files)]
    /\ UNCHANGED <<files, filesCreated, filesDeleted, nextID, deleted>>

\* files.go:193-207
getFileEndpoint(id) ==
    LET r == GetFile(files, id)
    IN  /\ resp' = Response("getFile", r.file, id, r.err, NoError)
        /\ UNCHANGED <<files, filesCreated, filesDeleted, nextID, deleted>>

\* files.go:233-248, with the Delete answering nil and removing nothing
deleteFileEndpoint_NoCall(id) ==
    /\ filesDeleted < MaxCount
    /\ filesDeleted' = filesDeleted + 1
    /\ deleted' = deleted \cup {id}
    /\ resp' = Response("deleteFile", NilFile, id, NoError, NoError)
    /\ UNCHANGED <<files, filesCreated, nextID>>

\* files.go:233-248
deleteFileEndpoint(id) ==
    LET r == DeleteFile(files, id)
    IN  /\ filesDeleted < MaxCount
        /\ filesDeleted' = filesDeleted + 1
        /\ files' = r.files
        /\ deleted' = IF r.err = NoError THEN deleted \cup {id} ELSE deleted
        /\ resp' = Response("deleteFile", NilFile, id, r.err, NoError)
        /\ UNCHANGED <<filesCreated, nextID>>

\* files.go:314-327
validateFileEndpoint(id) ==
    /\ resp' = Response("validateFile", NilFile, id, ValidateFile(files, id, now), NoError)
    /\ UNCHANGED <<files, filesCreated, filesDeleted, nextID, deleted>>

\* what a caller may submit, and the IDs a caller may ask for
Requests ==
    {NilFile} \cup {WithID(b, id) : b \in RequestBodies, id \in {""} \cup UserIDs \cup Issued}

KnownIDs == UserIDs \cup Issued

LifecycleInit ==
    /\ files = {}
    /\ filesCreated = 0
    /\ filesDeleted = 0
    /\ nextID = 0
    /\ resp = Response("none", NilFile, "", NoError, NoError)
    /\ deleted = {}

(***************************************************************************)
(* The three specifications.                                               *)
(***************************************************************************)
Init ==
    /\ LifecycleInit
    /\ now = Midnight + 1
    /\ file = NilFile /\ fileErr = NotCalled
    /\ routingNumber = <<>> /\ answer = <<>>
    /\ rtnErr = [appended |-> Unset, direct |-> Unset]

Next ==
    \/ \E f \in Requests : createFileEndpoint(f) /\ UNCHANGED <<now, temporalVars, routingVars>>
    \/ getFilesEndpoint /\ UNCHANGED <<now, temporalVars, routingVars>>
    \/ \E id \in KnownIDs : getFileEndpoint(id) /\ UNCHANGED <<now, temporalVars, routingVars>>
    \/ \E id \in KnownIDs : deleteFileEndpoint(id) /\ UNCHANGED <<now, temporalVars, routingVars>>
    \/ \E id \in KnownIDs : validateFileEndpoint(id) /\ UNCHANGED <<now, temporalVars, routingVars>>
    \/ Tick /\ UNCHANGED <<lifecycleVars, temporalVars, routingVars>>

Spec == Init /\ [][Next]_vars

InitTemporal ==
    /\ LifecycleInit
    /\ now \in {Midnight, Midnight + 1}
    /\ TemporalInit
    /\ routingNumber = <<>> /\ answer = <<>>
    /\ rtnErr = [appended |-> Unset, direct |-> Unset]

NextTemporal ==
    \/ CallFileHasOldBatches /\ UNCHANGED <<now, lifecycleVars, routingVars>>
    \/ Tick /\ fileErr' = NotCalled /\ UNCHANGED <<file, lifecycleVars, routingVars>>

SpecTemporal == InitTemporal /\ [][NextTemporal]_vars

InitRouting ==
    /\ LifecycleInit
    /\ now = Midnight + 1
    /\ file = NilFile /\ fileErr = NotCalled
    /\ RoutingInit

NextRouting ==
    \/ \E c \in Chars : AppendChar(c) /\ UNCHANGED <<now, lifecycleVars, temporalVars>>
    \/ CheckDigitCase /\ UNCHANGED <<now, lifecycleVars, temporalVars>>
    \/ CheckRoutingNumberCase /\ UNCHANGED <<now, lifecycleVars, temporalVars>>

SpecRouting == InitRouting /\ [][NextRouting]_vars

(***************************************************************************)
(* Properties of the checksum validator, under SpecRouting.                *)
(***************************************************************************)
EightDigits(s) == Len(s) = 8 /\ \A i \in 1..8 : s[i] \in 48..57

NineDigits(s) == Len(s) = 9 /\ \A i \in 1..9 : s[i] \in 48..57

\* the check digit of the first eight characters of s, written out
ExpectedDigit(s) ==
    LET d(i) == s[i] - 48
        sum == 3 * d(1) + 7 * d(2) + d(3) + 3 * d(4) + 7 * d(5) + d(6)
                 + 3 * d(7) + 7 * d(8)
    IN  (10 - (sum % 10)) % 10

\* C1: for a string of exactly 8 ASCII digits CalculateCheckDigit returns the
\* digit (10 - (weighted sum mod 10)) mod 10, in 0..9, with the weights
\* 3,7,1,3,7,1,3,7, and CheckRoutingNumber accepts the string followed by that
\* digit; the two valid vectors of the test get 8 and 6.
C1_CheckDigitOfEightDigits ==
    /\ (answer # <<>> /\ EightDigits(routingNumber)) =>
          /\ answer[1] \in 0..9
          /\ answer[1] = ExpectedDigit(routingNumber)
          /\ rtnErr.appended = "nil"
    /\ \A c \in TestCases :
          (answer # <<>> /\ routingNumber = c.rtn /\ c.check >= 0) => answer[1] = c.check

\* eight digits whose weighted sum is a multiple of 10: the digit is 0, not 10
C1_Witness ==
    /\ EightDigits(routingNumber)
    /\ \E i \in 1..8 : routingNumber[i] # 48
    /\ answer = <<0>>
    /\ rtnErr.appended = "nil"

\* C2: for a string that is not exactly 8 ASCII digits CalculateCheckDigit
\* returns -1 (the invalid vectors of the test among them), and
\* CheckRoutingNumber fails with InvalidRoutingNumber on a string that is not
\* exactly 9 digits or whose 9th digit is not the check digit of the first 8.
C2_InvalidInputsRejected ==
    /\ (answer # <<>> /\ ~EightDigits(routingNumber)) => answer[1] = -1
    /\ \A c \in TestCases :
          (answer # <<>> /\ routingNumber = c.rtn /\ c.check < 0) => answer[1] = -1
    /\ (/\ rtnErr.direct # Unset
        /\ \/ ~NineDigits(routingNumber)
           \/ routingNumber[9] - 48 # ExpectedDigit(routingNumber))
          => rtnErr.direct = "InvalidRoutingNumber"

\* nine digits, the ninth not the check digit: both calls reject
C2_Witness ==
    /\ NineDigits(routingNumber)
    /\ routingNumber[9] - 48 # ExpectedDigit(routingNumber)
    /\ answer = <<-1>>
    /\ rtnErr.direct = "InvalidRoutingNumber"

(***************************************************************************)
(* Properties of the temporal rule, under SpecTemporal.                    *)
(***************************************************************************)
\* the first instant of the current day: the multiple of TicksPerDay the clock is in
TodayMidnight ==
    CHOOSE m \in 0..now : m % TicksPerDay = 0 /\ now < m + TicksPerDay

\* the batch has a header and its date is strictly before today's midnight
IsStale(h) == h # NilHeader /\ h.EffectiveEntryDate < TodayMidnight

HasStale(batches) == \E i \in 1..Len(batches) : IsStale(batches[i])

Called == fileErr # NotCalled /\ file # NilFile

\* C4: a file with a Batch whose header is present and whose date is strictly
\* before today's midnight fails with StaleEffectiveDate; a file in which every
\* batch (of Batches and of IATBatches) has no header or a date at today's
\* midnight or later succeeds.
C4_TemporalRule ==
    Called =>
        /\ HasStale(file.Batches) => fileErr.err = "StaleEffectiveDate"
        /\ (~HasStale(file.Batches) /\ ~HasStale(file.IATBatches)) => fileErr = NoError

\* C9: an IAT batch is judged by its own header: a stale IAT batch makes the
\* file fail with StaleEffectiveDate whatever Batches holds, and a stale regular
\* batch is the one reported when there is one.
C9_IATBatchOwnHeader ==
    Called =>
        /\ HasStale(file.IATBatches) => fileErr.err = "StaleEffectiveDate"
        /\ HasStale(file.Batches) =>
              (fileErr.err = "StaleEffectiveDate" /\ fileErr.in = "batch")

\* C10: fileHasOldBatches returns nil or an error for every non-nil file: no
\* read of a batch is out of the bounds of the sequence it indexes.
C10_NoIndexOutOfRange ==
    Called => fileErr.err \in {"nil", "StaleEffectiveDate"}

(***************************************************************************)
(* Properties of the file lifecycle, under Spec.                           *)
(***************************************************************************)
\* the step is a call of Create
CreateStep == resp'.op = "createFile" /\ now' = now

\* C3: a Create whose file fails the temporal rule leaves the store as it was,
\* returns the error, and answers with the file's ID: the caller's, or the
\* freshly assigned one (held by no stored file) when the caller gave none.
C3_RejectedCreateStoresNothing ==
    [][(CreateStep /\ resp'.err.err = "StaleEffectiveDate") =>
          /\ files' = files
          /\ resp'.ret = resp'.err
          /\ IF resp'.file.ID = ""
             THEN /\ resp'.id = GenID(nextID + 1)
                  /\ resp'.id # ""
                  /\ resp'.id \notin StoredIDs(files')
             ELSE resp'.id = resp'.file.ID]_vars

\* a stale file without ID was rejected while another file is stored
C3_Witness ==
    /\ resp.op = "createFile"
    /\ resp.err.err = "StaleEffectiveDate"
    /\ resp.file.ID = ""
    /\ resp.id = GenID(nextID)
    /\ files # {}

\* C5: Create with a nil file answers with the NoFileProvided error.
C5_NilFileIsAnError ==
    (resp.op = "createFile" /\ resp.file = NilFile) =>
        (resp.err.err = "NoFileProvided" /\ resp.ret.err = "NoFileProvided")

\* C6: an ID deleted with success and not created again is held by no stored
\* file: Get of it fails with NotFound and List does not show it.
C6_DeletedIsNotFound ==
    \A id \in deleted :
        /\ id \notin StoredIDs(files)
        /\ (resp.op = "getFile" /\ resp.id = id) => resp.err = Failure("NotFound")
        /\ resp.op = "getFiles" => id \notin StoredIDs(resp.list)

\* Get of a deleted ID answered NotFound while another file is still stored
C6_Witness ==
    /\ resp.op = "getFile"
    /\ resp.id \in deleted
    /\ resp.err = Failure("NotFound")
    /\ files # {}

\* C7: a successful Create stores the file under a non-empty ID: the caller's
\* when given, else the next one of NextID(), held by no stored file before;
\* and no two stored files ever share an ID.
C7_StoredUnderUniqueID ==
    [][/\ \A g \in files' : g.ID # ""
       /\ \A g, h \in files' : g.ID = h.ID => g = h
       /\ (CreateStep /\ resp'.err = NoError /\ resp'.ret = NoError) =>
             /\ resp'.id # ""
             /\ IF resp'.file.ID = ""
                THEN resp'.id = GenID(nextID + 1) /\ resp'.id \notin StoredIDs(files)
                ELSE resp'.id = resp'.file.ID
             /\ [resp'.file EXCEPT !.ID = resp'.id] \in files']_vars

\* a file submitted without ID is stored under a generated ID next to another file
C7_Witness ==
    /\ resp.op = "createFile"
    /\ resp.file # NilFile
    /\ resp.file.ID = ""
    /\ resp.err = NoError
    /\ resp.id \in StoredIDs(files)
    /\ Cardinality(files) > 1

\* C8: the creation counter moves only in a Create of a file with both
\* identifiers non-empty, by one, and it counts files created: the Create that
\* moves it stores the file.
C8_CounterCountsFilesCreated ==
    [][filesCreated' # filesCreated =>
          /\ CreateStep
          /\ resp'.file # NilFile
          /\ resp'.file.ImmediateOrigin # "" /\ resp'.file.ImmediateDestination # ""
          /\ filesCreated' = filesCreated + 1
          /\ resp'.err = NoError /\ resp'.ret = NoError
          /\ resp'.id \in StoredIDs(files')]_vars

====
